---- MODULE Spec2Model ----
(***************************************************************************)
(* Model of the polynomial engine of nuthatch/jacamar: the two monomial    *)
(* multipliers (c_packed_mul, c_sparse_mul), the combined multiplier       *)
(* c_mon_mul and the polynomial multiplier c_poly_mul.                      *)
(*                                                                         *)
(* The functions are pure; each specification draws the arguments in Init  *)
(* and its actions run the function on them.  c_sparse_mul is run loop     *)
(* iteration by loop iteration; the same loop bodies are iterated by the   *)
(* operator c_sparse_mul that c_poly_mul uses for m * n.                    *)
(***************************************************************************)
EXTENDS Integers, Sequences, FiniteSets, TLC

VARIABLES
    self,         \* first argument of the monomial multiplier
    other,        \* second argument of the monomial multiplier
    build,        \* what the compiled module does on signed int overflow
    pc,           \* position in the monomial multiplier
    self_index,   \* cursor into self.degrees
    other_index,  \* cursor into other.degrees
    new_list,     \* output list of c_sparse_mul
    iterations,   \* loop iterations c_sparse_mul has run since its call
    result,       \* outcome of the monomial multiplier
    mon_result,   \* outcome of c_mon_mul(self, other) of cpoly.pyx
    P, Q, R,      \* polynomial operands
    ppc,          \* position in the sequence of polynomial products
    PQ, QP, QR,   \* outcomes of c_poly_mul(P, Q), (Q, P), (Q, R)
    PQ_R, P_QR,   \* outcomes of c_poly_mul(c_poly_mul(P, Q), R) and c_poly_mul(P, c_poly_mul(Q, R))
    pyx_PQ,       \* outcome of the c_poly_mul of cpoly.pyx on (P, Q)
    se_arg,       \* argument se of c_generic_mul: the rows of the left matrix
    oe_arg,       \* argument oe of c_generic_mul: the rows of the right matrix
    sr_arg,       \* argument sr of c_generic_mul: the number of rows of se
    on_arg,       \* argument on of c_generic_mul: the number of columns of oe
    mpc,          \* position in the matrix multiplier
    mat_result    \* outcome of c_generic_mul

monVars == <<self, other, build, pc, self_index, other_index, new_list, iterations, result,
            mon_result>>
polyVars == <<P, Q, R, ppc, PQ, QP, QR, PQ_R, P_QR, pyx_PQ>>
matVars == <<se_arg, oe_arg, sr_arg, on_arg, mpc, mat_result>>
vars == <<self, other, build, pc, self_index, other_index, new_list, iterations, result,
          mon_result, P, Q, R, ppc, PQ, QP, QR, PQ_R, P_QR, pyx_PQ,
          se_arg, oe_arg, sr_arg, on_arg, mpc, mat_result>>

(***************************************************************************)
(* Bounds of the model and constants of the program.                       *)
(***************************************************************************)
\* largest positive exponent of a sampled sparse monomial
MaxExp == 2
\* largest magnitude of a negative exponent of a sampled sparse monomial
MaxNeg == 1
\* largest number of terms of a sampled polynomial
MaxTerms == 2
\* largest number of (index, exponent) pairs of a flat sequence given to the merge
MaxPairs == 2
\* largest number of rows and of columns of a matrix given to c_generic_mul
MaxDim == 2
\* number of generators of the ring of the README's example
NGens == 3
\* radix of the packed encoding
PACKING_BOUND == 4
\* largest value of a C int (cython.int)
INT_MAX == 2147483647
INT_MIN == -INT_MAX - 1

(***************************************************************************)
(* Python values.                                                           *)
(***************************************************************************)
\* seq[i] for a Python index i >= 0
At(seq, i) == seq[i + 1]
\* seq[i:j], clipped to the sequence as Python clips a slice
Slice(seq, i, j) == SubSeq(seq, i + 1, IF j < Len(seq) THEN j ELSE Len(seq))
HasAttr(obj, name) == name \in DOMAIN obj

\* the outcomes of a call
Returned(v) == [status |-> "returned", value |-> v]
Raised(e) == [status |-> "raised", exc |-> e]
Aborted == [status |-> "aborted"]
NotCalled == [status |-> "none"]

\* a packed monomial: the integer weight = sum of e_i * PACKING_BOUND^i
PackedMonomialData(w) == [packed |-> TRUE, weight |-> w]
\* a sparse monomial: the flat tuple (i0, e0, i1, e1, ...)
SparseMonomialData(d) == [packed |-> FALSE, degrees |-> d]

(***************************************************************************)
(* cython.int arithmetic.                                                   *)
(***************************************************************************)
\* a Python int converts to a C int only when it fits
FitsCInt(v) == v >= INT_MIN /\ v <= INT_MAX
\* s + o leaves the range of a C int
AddOverflows(s, o) ==
    \/ (o > 0 /\ s > INT_MAX - o)
    \/ (o < 0 /\ s < INT_MIN - o)
\* s + o reduced to 32 bits, two's complement
WrapAdd(s, o) ==
    IF o > 0 /\ s > INT_MAX - o THEN ((s - INT_MAX) - 1) + ((o - INT_MAX) - 1)
    ELSE IF o < 0 /\ s < INT_MIN - o THEN ((s + INT_MAX) + 1) + ((o + INT_MAX) + 1)
    ELSE s + o

(***************************************************************************)
(* c_packed_mul                                                             *)
(***************************************************************************)
c_packed_mul(a, b) ==
    IF ~HasAttr(a, "weight") THEN Raised("AttributeError")
    ELSE IF ~FitsCInt(a.weight) THEN Raised("OverflowError")
    ELSE IF ~HasAttr(b, "weight") THEN Raised("AttributeError")
    ELSE IF ~FitsCInt(b.weight) THEN Raised("OverflowError")
    ELSE IF AddOverflows(a.weight, b.weight)
         THEN IF build = "wrap"
              THEN Returned(PackedMonomialData(WrapAdd(a.weight, b.weight)))
              ELSE Aborted
    ELSE Returned(PackedMonomialData(a.weight + b.weight))

(***************************************************************************)
(* c_sparse_mul: the loop bodies on the loop state                          *)
(*   st = [self_index, other_index, new_list]                               *)
(***************************************************************************)
LoopState(si, oi, nl) == [self_index |-> si, other_index |-> oi, new_list |-> nl]

While1Cond(sd, od, st) == st.self_index < Len(sd) /\ st.other_index < Len(od)
\* faulty variant: the second loop runs once more at the end of self.degrees
While2CondInclusive(sd, st) == st.self_index <= Len(sd)
While2Cond(sd, st) == st.self_index < Len(sd)
While3Cond(od, st) == st.other_index < Len(od)

\* faulty variant: a shared index keeps a zero exponent sum
While1BodyKeepZero(sd, od, st) ==
    IF At(sd, st.self_index) < At(od, st.other_index)
    THEN LoopState(st.self_index + 2, st.other_index,
                   st.new_list \o Slice(sd, st.self_index, st.self_index + 2))
    ELSE IF At(sd, st.self_index) = At(od, st.other_index)
    THEN LoopState(st.self_index + 2, st.other_index + 2,
                   st.new_list \o <<At(sd, st.self_index),
                                    At(sd, st.self_index + 1) + At(od, st.other_index + 1)>>)
    ELSE LoopState(st.self_index, st.other_index + 2,
                   st.new_list \o Slice(od, st.other_index, st.other_index + 2))

\* faulty variant: a shared index keeps self's exponent only
While1BodySelfExp(sd, od, st) ==
    IF At(sd, st.self_index) < At(od, st.other_index)
    THEN LoopState(st.self_index + 2, st.other_index,
                   st.new_list \o Slice(sd, st.self_index, st.self_index + 2))
    ELSE IF At(sd, st.self_index) = At(od, st.other_index)
    THEN LoopState(st.self_index + 2, st.other_index + 2,
                   st.new_list \o Slice(sd, st.self_index, st.self_index + 2))
    ELSE LoopState(st.self_index, st.other_index + 2,
                   st.new_list \o Slice(od, st.other_index, st.other_index + 2))

\* one iteration of the first while loop
While1Body(sd, od, st) ==
    IF At(sd, st.self_index) < At(od, st.other_index)
    THEN LoopState(st.self_index + 2, st.other_index,
                   st.new_list \o Slice(sd, st.self_index, st.self_index + 2))
    ELSE IF At(sd, st.self_index) = At(od, st.other_index)
    THEN LET x == At(sd, st.self_index + 1) + At(od, st.other_index + 1)
         IN  LoopState(st.self_index + 2, st.other_index + 2,
                       IF x # 0 THEN Append(Append(st.new_list, At(sd, st.self_index)), x)
                       ELSE st.new_list)
    ELSE LoopState(st.self_index, st.other_index + 2,
                   st.new_list \o Slice(od, st.other_index, st.other_index + 2))

\* faulty variant: the second loop advances without copying the pair
While2BodySkip(sd, st) ==
    LoopState(st.self_index + 2, st.other_index, st.new_list)

\* one iteration of the second while loop
While2Body(sd, st) ==
    LoopState(st.self_index + 2, st.other_index,
              st.new_list \o Slice(sd, st.self_index, st.self_index + 2))

\* faulty variant: the third loop advances without copying the pair
While3BodySkip(od, st) ==
    LoopState(st.self_index, st.other_index + 2, st.new_list)

\* one iteration of the third while loop
While3Body(od, st) ==
    LoopState(st.self_index, st.other_index + 2,
              st.new_list \o Slice(od, st.other_index, st.other_index + 2))

RECURSIVE While1(_, _, _)
While1(sd, od, st) ==
    IF While1Cond(sd, od, st) THEN While1(sd, od, While1Body(sd, od, st)) ELSE st

RECURSIVE While2(_, _)
While2(sd, st) ==
    IF While2Cond(sd, st) THEN While2(sd, While2Body(sd, st)) ELSE st

RECURSIVE While3(_, _)
While3(od, st) ==
    IF While3Cond(od, st) THEN While3(od, While3Body(od, st)) ELSE st

c_sparse_mul(a, b) ==
    IF ~HasAttr(a, "degrees") \/ ~HasAttr(b, "degrees") THEN Raised("AttributeError")
    ELSE LET st == While3(b.degrees,
                     While2(a.degrees,
                       While1(a.degrees, b.degrees, LoopState(0, 0, <<>>))))
         IN  Returned(SparseMonomialData(st.new_list))

(***************************************************************************)
(* The monomials the multipliers are run on.                                *)
(***************************************************************************)
\* exponent vectors of the sampled sparse monomials; 0 means the generator is absent
ExpVectors == [0..(NGens - 1) -> (-MaxNeg)..MaxExp]

\* the flat tuple of an exponent vector, from generator i on: increasing
\* indices, no zero exponent
RECURSIVE FlatFrom(_, _)
FlatFrom(ev, i) ==
    IF i >= NGens THEN <<>>
    ELSE (IF ev[i] # 0 THEN <<i, ev[i]>> ELSE <<>>) \o FlatFrom(ev, i + 1)

SparseMonomials == {SparseMonomialData(FlatFrom(ev, 0)) : ev \in ExpVectors}

RECURSIVE Pow(_, _)
Pow(b, n) == IF n = 0 THEN 1 ELSE b * Pow(b, n - 1)

\* the highest slot whose unit weight PACKING_BOUND^i is still a C int
RECURSIVE TopSlotFrom(_, _)
TopSlotFrom(i, p) ==
    IF p > INT_MAX \div PACKING_BOUND THEN i ELSE TopSlotFrom(i + 1, p * PACKING_BOUND)
TopSlot == TopSlotFrom(0, 1)

\* the slots the sampled packed monomials use
PackedSlots == {0, 1, TopSlot}

\* exponent vectors of the sampled packed monomials: every digit in
\* [0, PACKING_BOUND), the weight a C int
PackedExpVectors ==
    {ev \in [PackedSlots -> 0..(PACKING_BOUND - 1)] : ev[1] <= 1 /\ ev[TopSlot] <= 1}

\* value = sum of e_i * PACKING_BOUND^i
Encode(ev) ==
    ev[0] + ev[1] * PACKING_BOUND + ev[TopSlot] * Pow(PACKING_BOUND, TopSlot)

\* the exponent in slot i of the packed value w
Digit(w, i) == (w \div Pow(PACKING_BOUND, i)) % PACKING_BOUND

PackedMonomials == {PackedMonomialData(Encode(ev)) : ev \in PackedExpVectors}

\* the exponent of generator v in the flat tuple d, 0 when v is absent
ExpOf(d, v) ==
    LET at == {i \in 1..(Len(d) \div 2) : d[2 * i - 1] = v}
    IN  IF at = {} THEN 0 ELSE d[2 * (CHOOSE i \in at : TRUE)]

\* strictly increasing indices, no zero exponent
Canonical(d) ==
    /\ Len(d) % 2 = 0
    /\ \A i \in 1..(Len(d) \div 2) : d[2 * i] # 0
    /\ \A i \in 1..(Len(d) \div 2 - 1) : d[2 * i - 1] < d[2 * i + 1]

PositiveExps(d) == \A i \in 1..(Len(d) \div 2) : d[2 * i] > 0

(***************************************************************************)
(* Polynomials.                                                             *)
(***************************************************************************)
\* a polynomial: its coefficient ring, its monomial kind and its dictionary
\* monomial -> coefficient, kept as the sequence of items in insertion order
Polynomial(ring, kind, items) ==
    [base_ring |-> ring, packed |-> kind, monomial_dictionary |-> items]

(***************************************************************************)
(* Running the monomial multipliers.                                        *)
(***************************************************************************)
MatIdle ==
    /\ se_arg = <<>>
    /\ oe_arg = <<>>
    /\ sr_arg = 0
    /\ on_arg = 0
    /\ mpc = "idle"
    /\ mat_result = NotCalled

PolyIdle ==
    /\ P = Polynomial("ZZ", FALSE, <<>>)
    /\ Q = Polynomial("ZZ", FALSE, <<>>)
    /\ R = Polynomial("ZZ", FALSE, <<>>)
    /\ ppc = "idle"
    /\ PQ = NotCalled /\ QP = NotCalled /\ QR = NotCalled
    /\ PQ_R = NotCalled /\ P_QR = NotCalled
    /\ pyx_PQ = NotCalled

InitSparse ==
    /\ self \in SparseMonomials \cup PackedMonomials
    /\ other \in SparseMonomials \cup PackedMonomials
    /\ build = "wrap"
    /\ pc = "call"
    /\ self_index = 0
    /\ other_index = 0
    /\ new_list = <<>>
    /\ iterations = 0
    /\ result = NotCalled
    /\ mon_result = NotCalled
    /\ PolyIdle
    /\ MatIdle

\* c_sparse_mul, lines 13-17: the lengths of both tuples are taken first
SparseCall ==
    /\ pc = "call"
    /\ IF ~HasAttr(self, "degrees") \/ ~HasAttr(other, "degrees")
       THEN /\ result' = Raised("AttributeError")
            /\ pc' = "done"
       ELSE /\ result' = result
            /\ pc' = "while1"
    /\ self_index' = 0
    /\ other_index' = 0
    /\ new_list' = <<>>
    /\ iterations' = 0
    /\ UNCHANGED <<self, other, build>>
    /\ UNCHANGED mon_result
    /\ UNCHANGED polyVars
    /\ UNCHANGED matVars

SetLoopState(st) ==
    /\ self_index' = st.self_index
    /\ other_index' = st.other_index
    /\ new_list' = st.new_list

\* c_sparse_mul, lines 18-31
SparseWhile1 ==
    /\ pc = "while1"
    /\ LET st == LoopState(self_index, other_index, new_list)
       IN  IF While1Cond(self.degrees, other.degrees, st)
           THEN /\ iterations' = iterations + 1
                /\ SetLoopState(While1Body(self.degrees, other.degrees, st))
                /\ pc' = "while1"
           ELSE /\ iterations' = iterations
                /\ SetLoopState(st)
                /\ pc' = "while2"
    /\ UNCHANGED <<self, other, build, result>>
    /\ UNCHANGED mon_result
    /\ UNCHANGED polyVars
    /\ UNCHANGED matVars

\* c_sparse_mul, lines 35-37
SparseWhile2 ==
    /\ pc = "while2"
    /\ LET st == LoopState(self_index, other_index, new_list)
       IN  IF While2Cond(self.degrees, st)
           THEN /\ iterations' = iterations + 1
                /\ SetLoopState(While2Body(self.degrees, st))
                /\ pc' = "while2"
           ELSE /\ iterations' = iterations
                /\ SetLoopState(st)
                /\ pc' = "while3"
    /\ UNCHANGED <<self, other, build, result>>
    /\ UNCHANGED mon_result
    /\ UNCHANGED polyVars
    /\ UNCHANGED matVars

\* c_sparse_mul, lines 38-40
SparseWhile3 ==
    /\ pc = "while3"
    /\ LET st == LoopState(self_index, other_index, new_list)
       IN  IF While3Cond(other.degrees, st)
           THEN /\ iterations' = iterations + 1
                /\ SetLoopState(While3Body(other.degrees, st))
                /\ pc' = "while3"
           ELSE /\ iterations' = iterations
                /\ SetLoopState(st)
                /\ pc' = "return"
    /\ UNCHANGED <<self, other, build, result>>
    /\ UNCHANGED mon_result
    /\ UNCHANGED polyVars
    /\ UNCHANGED matVars

\* c_sparse_mul, line 42
SparseReturn ==
    /\ pc = "return"
    /\ result' = Returned(SparseMonomialData(new_list))
    /\ pc' = "done"
    /\ UNCHANGED <<self, other, build, self_index, other_index, new_list, iterations>>
    /\ UNCHANGED mon_result
    /\ UNCHANGED polyVars
    /\ UNCHANGED matVars

NextSparse == SparseCall \/ SparseWhile1 \/ SparseWhile2 \/ SparseWhile3 \/ SparseReturn

SpecSparse == InitSparse /\ [][NextSparse]_vars

\* the even-length flat sequences of at most MaxPairs pairs, sorted or not,
\* with or without repeated indices
MergeExps == {-1, 1}
MergeSeqs ==
    UNION {{d \in [1..(2 * n) -> (0..(NGens - 1)) \cup MergeExps] :
               \A i \in 1..n : /\ d[2 * i - 1] \in 0..(NGens - 1)
                                /\ d[2 * i] \in MergeExps} :
           n \in 0..MaxPairs}

InitMerge ==
    /\ self \in {SparseMonomialData(d) : d \in MergeSeqs}
    /\ other \in {SparseMonomialData(d) : d \in MergeSeqs}
    /\ build = "wrap"
    /\ pc = "call"
    /\ self_index = 0
    /\ other_index = 0
    /\ new_list = <<>>
    /\ iterations = 0
    /\ result = NotCalled
    /\ mon_result = NotCalled
    /\ PolyIdle
    /\ MatIdle

\* c_sparse_mul is a sequential function: once called it runs to its return
SpecMerge == InitMerge /\ [][NextSparse]_vars /\ WF_vars(NextSparse)

InitPacked ==
    /\ self \in PackedMonomials \cup {SparseMonomialData(<<>>), SparseMonomialData(<<0, 1>>)}
    /\ other \in PackedMonomials \cup {SparseMonomialData(<<>>), SparseMonomialData(<<0, 1>>)}
    /\ build \in {"wrap", "trap"}
    /\ pc = "call"
    /\ self_index = 0
    /\ other_index = 0
    /\ new_list = <<>>
    /\ iterations = 0
    /\ result = NotCalled
    /\ mon_result = NotCalled
    /\ PolyIdle
    /\ MatIdle

\* c_packed_mul, lines 7-10
PackedCall ==
    /\ pc = "call"
    /\ result' = c_packed_mul(self, other)
    /\ pc' = "done"
    /\ UNCHANGED <<self, other, build, self_index, other_index, new_list, iterations>>
    /\ UNCHANGED mon_result
    /\ UNCHANGED polyVars
    /\ UNCHANGED matVars

NextPacked == PackedCall

SpecPacked == InitPacked /\ [][NextPacked]_vars

(***************************************************************************)
(* c_mon_mul (cpoly.pyx)                                                    *)
(***************************************************************************)
\* Python's None, what a function returns that ends without a return statement
None == [none |-> TRUE]

c_mon_mul(a, b) ==
    IF a.packed /\ b.packed
    THEN c_packed_mul(a, b)
    ELSE IF ~HasAttr(a, "degrees") \/ ~HasAttr(b, "degrees") THEN Raised("AttributeError")
    ELSE Returned(None)

(***************************************************************************)
(* c_poly_mul                                                               *)
(***************************************************************************)
\* the coefficient ring ZZ
RingMul(c, d) == c * d
RingAdd(c, d) == c + d

\* m * n: the multiplier of m's monomial class
MonMul(m, n) == IF m.packed THEN c_packed_mul(m, n) ELSE c_sparse_mul(m, n)

\* the keys of a dictionary and the value stored under a key
Keys(items) == {items[i][1] : i \in 1..Len(items)}
Get(items, k) == items[CHOOSE i \in 1..Len(items) : items[i][1] = k][2]

\* faulty variant: an existing key is overwritten instead of added to
DictAddOverwrite(new_dict, k, e) ==
    IF k \in Keys(new_dict)
    THEN LET i == CHOOSE j \in 1..Len(new_dict) : new_dict[j][1] = k
         IN  [new_dict EXCEPT ![i] = <<k, e>>]
    ELSE Append(new_dict, <<k, e>>)

\* faulty variant: an existing key is left as it is
DictAddKeepFirst(new_dict, k, e) ==
    IF k \in Keys(new_dict) THEN new_dict ELSE Append(new_dict, <<k, e>>)

\* if k in new_dict: new_dict[k] += e   else: new_dict[k] = e
DictAdd(new_dict, k, e) ==
    IF k \in Keys(new_dict)
    THEN LET i == CHOOSE j \in 1..Len(new_dict) : new_dict[j][1] = k
         IN  [new_dict EXCEPT ![i] = <<k, RingAdd(new_dict[i][2], e)>>]
    ELSE Append(new_dict, <<k, e>>)

\* the inner for loop from item j of other on, for the item (m, c) of self
RECURSIVE InnerFor(_, _, _, _, _)
InnerFor(m, c, oitems, j, new_dict) ==
    IF j > Len(oitems) THEN Returned(new_dict)
    ELSE LET k == MonMul(m, oitems[j][1])
         IN  IF k.status # "returned" THEN k
             ELSE InnerFor(m, c, oitems, j + 1,
                           DictAdd(new_dict, k.value, RingMul(c, oitems[j][2])))

\* the outer for loop from item i of self on
RECURSIVE OuterFor(_, _, _, _)
OuterFor(sitems, oitems, i, new_dict) ==
    IF i > Len(sitems) THEN Returned(new_dict)
    ELSE LET r == InnerFor(sitems[i][1], sitems[i][2], oitems, 1, new_dict)
         IN  IF r.status # "returned" THEN r
             ELSE OuterFor(sitems, oitems, i + 1, r.value)

c_poly_mul(a, b) ==
    LET r == OuterFor(a.monomial_dictionary, b.monomial_dictionary, 1, <<>>)
    IN  IF r.status # "returned" THEN r
        ELSE Returned(Polynomial(b.base_ring, b.packed, r.value))

\* c_poly_mul(x, b) where x is the outcome of an inner call
PolyMulLeft(x, b) == IF x.status # "returned" THEN x ELSE c_poly_mul(x.value, b)
\* c_poly_mul(a, y) where y is the outcome of an inner call
PolyMulRight(a, y) == IF y.status # "returned" THEN y ELSE c_poly_mul(a, y.value)

(***************************************************************************)
(* c_poly_mul of cpoly.pyx: the same loops with k = c_mon_mul(m, n)         *)
(***************************************************************************)
RECURSIVE pyx_InnerFor(_, _, _, _, _)
pyx_InnerFor(m, c, oitems, j, new_dict) ==
    IF j > Len(oitems) THEN Returned(new_dict)
    ELSE LET k == c_mon_mul(m, oitems[j][1])
         IN  IF k.status # "returned" THEN k
             ELSE pyx_InnerFor(m, c, oitems, j + 1,
                               DictAdd(new_dict, k.value, RingMul(c, oitems[j][2])))

RECURSIVE pyx_OuterFor(_, _, _, _)
pyx_OuterFor(sitems, oitems, i, new_dict) ==
    IF i > Len(sitems) THEN Returned(new_dict)
    ELSE LET r == pyx_InnerFor(sitems[i][1], sitems[i][2], oitems, 1, new_dict)
         IN  IF r.status # "returned" THEN r
             ELSE pyx_OuterFor(sitems, oitems, i + 1, r.value)

pyx_c_poly_mul(a, b) ==
    LET r == pyx_OuterFor(a.monomial_dictionary, b.monomial_dictionary, 1, <<>>)
    IN  IF r.status # "returned" THEN r
        ELSE Returned(Polynomial(b.base_ring, b.packed, r.value))

(***************************************************************************)
(* The polynomials c_poly_mul is run on.                                    *)
(***************************************************************************)
\* the "1" monomial: Packed: integer 0; Sparse: empty tuple
IdentityMonomial(kind) ==
    IF kind THEN PackedMonomialData(0) ELSE SparseMonomialData(<<>>)

\* the monomials of the sampled polynomials: 1, x0 and one more
PolyKeys(kind) ==
    IF kind
    THEN {PackedMonomialData(0), PackedMonomialData(1),
          PackedMonomialData(Pow(PACKING_BOUND, TopSlot))}
    ELSE {SparseMonomialData(<<>>), SparseMonomialData(<<0, 1>>),
          SparseMonomialData(<<1, 1>>)}

\* the monomials of the polynomials of the triple products
TripleKeys(kind) ==
    IF kind
    THEN {PackedMonomialData(1), PackedMonomialData(Pow(PACKING_BOUND, TopSlot))}
    ELSE {SparseMonomialData(<<0, 1>>), SparseMonomialData(<<1, 1>>)}

\* non-zero coefficients
Coefs == {-1, 1, 2}
TripleCoefs == {-1, 1}

\* the dictionaries of at most MaxTerms items, in every insertion order
ItemSeqs(keys, coefs) ==
    {s \in UNION {[1..n -> keys \X coefs] : n \in 0..MaxTerms} :
        \A i, j \in 1..Len(s) : i # j => s[i][1] # s[j][1]}

PolysOf(kind) == {Polynomial("ZZ", kind, s) : s \in ItemSeqs(PolyKeys(kind), Coefs)}

Polys ==
    UNION {{Polynomial("ZZ", kind, s) : s \in ItemSeqs(PolyKeys(kind), Coefs)} :
              kind \in BOOLEAN}

TriplePolys(kind) ==
    {Polynomial("ZZ", kind, s) : s \in ItemSeqs(TripleKeys(kind), TripleCoefs)}

\* the builds that differ on operands of this kind: only the weights of two
\* packed monomials are added as C ints
Builds(kind) == IF kind THEN {"wrap", "trap"} ELSE {"wrap"}

(***************************************************************************)
(* Running c_poly_mul.                                                      *)
(***************************************************************************)
MonIdle ==
    /\ self = SparseMonomialData(<<>>)
    /\ other = SparseMonomialData(<<>>)
    /\ pc = "idle"
    /\ self_index = 0
    /\ other_index = 0
    /\ new_list = <<>>
    /\ iterations = 0
    /\ result = NotCalled
    /\ mon_result = NotCalled

InitPoly ==
    /\ MonIdle
    /\ MatIdle
    /\ P \in Polys
    /\ Q \in Polys
    /\ R = Polynomial("ZZ", FALSE, <<>>)
    /\ build \in Builds(P.packed /\ Q.packed)
    /\ ppc = "start"
    /\ PQ = NotCalled /\ QP = NotCalled /\ QR = NotCalled
    /\ PQ_R = NotCalled /\ P_QR = NotCalled
    /\ pyx_PQ = NotCalled

\* c_poly_mul(P, Q)
PolyMulPQ ==
    /\ ppc = "start"
    /\ PQ' = c_poly_mul(P, Q)
    /\ ppc' = "pq"
    /\ UNCHANGED <<P, Q, R, QP, QR, PQ_R, P_QR>>
    /\ UNCHANGED pyx_PQ
    /\ UNCHANGED monVars
    /\ UNCHANGED matVars

\* c_poly_mul(Q, P)
PolyMulQP ==
    /\ ppc = "pq"
    /\ QP' = c_poly_mul(Q, P)
    /\ ppc' = "done"
    /\ UNCHANGED <<P, Q, R, PQ, QR, PQ_R, P_QR>>
    /\ UNCHANGED pyx_PQ
    /\ UNCHANGED monVars
    /\ UNCHANGED matVars

NextPoly == PolyMulPQ \/ PolyMulQP

SpecPoly == InitPoly /\ [][NextPoly]_vars

InitTriple ==
    /\ MonIdle
    /\ MatIdle
    /\ \E kind \in BOOLEAN :
           /\ P \in TriplePolys(kind)
           /\ Q \in TriplePolys(kind)
           /\ R \in TriplePolys(kind)
           /\ build \in Builds(kind)
    /\ ppc = "start"
    /\ PQ = NotCalled /\ QP = NotCalled /\ QR = NotCalled
    /\ PQ_R = NotCalled /\ P_QR = NotCalled
    /\ pyx_PQ = NotCalled

\* c_poly_mul(c_poly_mul(P, Q), R)
TripleMulLeft ==
    /\ ppc = "pq"
    /\ PQ_R' = PolyMulLeft(PQ, R)
    /\ ppc' = "pq_r"
    /\ UNCHANGED <<P, Q, R, PQ, QP, QR, P_QR>>
    /\ UNCHANGED pyx_PQ
    /\ UNCHANGED monVars
    /\ UNCHANGED matVars

\* c_poly_mul(Q, R)
TripleMulQR ==
    /\ ppc = "pq_r"
    /\ QR' = c_poly_mul(Q, R)
    /\ ppc' = "qr"
    /\ UNCHANGED <<P, Q, R, PQ, QP, PQ_R, P_QR>>
    /\ UNCHANGED pyx_PQ
    /\ UNCHANGED monVars
    /\ UNCHANGED matVars

\* c_poly_mul(P, c_poly_mul(Q, R))
TripleMulRight ==
    /\ ppc = "qr"
    /\ P_QR' = PolyMulRight(P, QR)
    /\ ppc' = "done"
    /\ UNCHANGED <<P, Q, R, PQ, QP, QR, PQ_R>>
    /\ UNCHANGED pyx_PQ
    /\ UNCHANGED monVars
    /\ UNCHANGED matVars

NextTriple == PolyMulPQ \/ TripleMulLeft \/ TripleMulQR \/ TripleMulRight

SpecTriple == InitTriple /\ [][NextTriple]_vars

(***************************************************************************)
(* Running the combined multiplier of cpoly.pyx next to the split ones:     *)
(* either on two monomials of one kind or on two polynomials of one kind.   *)
(***************************************************************************)
MonomialsOf(kind) == IF kind THEN PackedMonomials ELSE SparseMonomials

InitCombined ==
    \E kind \in BOOLEAN :
        /\ build \in Builds(kind)
        /\ \/ /\ self \in MonomialsOf(kind)
              /\ other \in MonomialsOf(kind)
              /\ pc = "call"
              /\ self_index = 0
              /\ other_index = 0
              /\ new_list = <<>>
              /\ iterations = 0
              /\ result = NotCalled
              /\ mon_result = NotCalled
              /\ PolyIdle
              /\ MatIdle
           \/ /\ MonIdle
              /\ MatIdle
              /\ P \in PolysOf(kind)
              /\ Q \in PolysOf(kind)
              /\ R = Polynomial("ZZ", FALSE, <<>>)
              /\ ppc = "start"
              /\ PQ = NotCalled /\ QP = NotCalled /\ QR = NotCalled
              /\ PQ_R = NotCalled /\ P_QR = NotCalled
              /\ pyx_PQ = NotCalled

\* self * other by the split multiplier of the operands' kind, then
\* c_mon_mul(self, other)
MonMulBoth ==
    /\ pc = "call"
    /\ result' = MonMul(self, other)
    /\ mon_result' = c_mon_mul(self, other)
    /\ pc' = "done"
    /\ UNCHANGED <<self, other, build, self_index, other_index, new_list, iterations>>
    /\ UNCHANGED polyVars
    /\ UNCHANGED matVars

\* c_poly_mul(P, Q) of cpoly.pyx
PyxPolyMulPQ ==
    /\ ppc = "pq"
    /\ pyx_PQ' = pyx_c_poly_mul(P, Q)
    /\ ppc' = "done"
    /\ UNCHANGED <<P, Q, R, PQ, QP, QR, PQ_R, P_QR>>
    /\ UNCHANGED monVars
    /\ UNCHANGED matVars

NextCombined == MonMulBoth \/ PolyMulPQ \/ PyxPolyMulPQ

SpecCombined == InitCombined /\ [][NextCombined]_vars

(***************************************************************************)
(* c_generic_mul (cmat): a matrix is the list of its rows                   *)
(***************************************************************************)
\* the names bound where line 13 is evaluated: the parameters and locals of
\* c_generic_mul and the globals of its module; self is none of them and no
\* builtin
GenericMulNames ==
    {"se", "oe", "sr", "on", "new_entries", "i", "j", "new_entry", "k",
     "cython", "c_generic_mul"}

\* looking up a name that is read but never bound
LookupName(name) ==
    IF name \in GenericMulNames THEN Returned(name) ELSE Raised("NameError")

\* lines 12-14, the entry (i, j): the first product is computed, then the for
\* statement evaluates range(1, self.ncols)
GenericEntry(se, oe, i, j) ==
    LET new_entry == RingMul(se[i + 1][1], oe[1][j + 1])
        self_obj == LookupName("self")
    IN  IF self_obj.status # "returned" THEN self_obj
        ELSE Raised("AttributeError")

\* lines 11-15, the loop over j from j on, for row i
RECURSIVE GenericRow(_, _, _, _, _, _)
GenericRow(se, oe, on, i, j, row) ==
    IF j >= on THEN Returned(row)
    ELSE LET e == GenericEntry(se, oe, i, j)
         IN  IF e.status # "returned" THEN e
             ELSE GenericRow(se, oe, on, i, j + 1, Append(row, e.value))

\* lines 9-15, the loop over i from i on
RECURSIVE GenericRows(_, _, _, _, _, _)
GenericRows(se, oe, sr, on, i, new_entries) ==
    IF i >= sr THEN Returned(new_entries)
    ELSE LET r == GenericRow(se, oe, on, i, 0, <<>>)
         IN  IF r.status # "returned" THEN r
             ELSE GenericRows(se, oe, sr, on, i + 1, Append(new_entries, r.value))

c_generic_mul(se, oe, sr, on) == GenericRows(se, oe, sr, on, 0, <<>>)

\* the entries of the sampled matrices
MatEntries == {-1, 2}

\* the sr x n and n x on matrices with 0 <= sr, on <= MaxDim, 1 <= n <= MaxDim
InitGeneric ==
    /\ \E n \in 1..MaxDim :
           /\ sr_arg \in 0..MaxDim
           /\ on_arg \in 0..MaxDim
           /\ se_arg \in [1..sr_arg -> [1..n -> MatEntries]]
           /\ oe_arg \in [1..n -> [1..on_arg -> MatEntries]]
    /\ mpc = "call"
    /\ mat_result = NotCalled
    /\ MonIdle
    /\ build = "wrap"
    /\ PolyIdle

\* c_generic_mul, lines 7-16
GenericMulCall ==
    /\ mpc = "call"
    /\ mat_result' = c_generic_mul(se_arg, oe_arg, sr_arg, on_arg)
    /\ mpc' = "done"
    /\ UNCHANGED <<se_arg, oe_arg, sr_arg, on_arg>>
    /\ UNCHANGED <<monVars, polyVars>>

NextGeneric == GenericMulCall

SpecGeneric == InitGeneric /\ [][NextGeneric]_vars

(***************************************************************************)
(* Claims about the monomial multipliers.                                   *)
(***************************************************************************)
BothSparse == HasAttr(self, "degrees") /\ HasAttr(other, "degrees")
BothPacked == HasAttr(self, "weight") /\ HasAttr(other, "weight")

\* the generator indices stored in the flat tuple d
IndicesOf(d) == {d[2 * i - 1] : i \in 1..(Len(d) \div 2)}

\* C1: c_sparse_mul returns the exponent-wise sum of its operands: for
\* canonical sparse monomials with positive exponents, the exponent of every
\* generator in the result is the sum of its exponents in the operands (an
\* absent generator counting as 0), and the result stores no other generator;
\* merging (0,1,2,3) with (1,2,2,4) yields (0,1,1,2,2,7).
SparseMulExponentSum ==
    /\ (/\ pc = "done"
        /\ BothSparse
        /\ Canonical(self.degrees) /\ PositiveExps(self.degrees)
        /\ Canonical(other.degrees) /\ PositiveExps(other.degrees))
       => /\ result.status = "returned"
          /\ HasAttr(result.value, "degrees")
          /\ Len(result.value.degrees) % 2 = 0
          /\ IndicesOf(result.value.degrees)
                 \subseteq IndicesOf(self.degrees) \cup IndicesOf(other.degrees)
          /\ \A v \in 0..(NGens - 1) :
                 ExpOf(result.value.degrees, v)
                     = ExpOf(self.degrees, v) + ExpOf(other.degrees, v)
    /\ c_sparse_mul(SparseMonomialData(<<0, 1, 2, 3>>), SparseMonomialData(<<1, 2, 2, 4>>))
           = Returned(SparseMonomialData(<<0, 1, 1, 2, 2, 7>>))

\* x0*x2^2 times x1^2*x2^2 has been merged into x0*x1^2*x2^4
SparseMulExponentSumWitness ==
    /\ pc = "done"
    /\ self = SparseMonomialData(<<0, 1, 2, 2>>)
    /\ other = SparseMonomialData(<<1, 2, 2, 2>>)
    /\ result = Returned(SparseMonomialData(<<0, 1, 1, 2, 2, 4>>))

\* C2: c_sparse_mul preserves canonicality: when both operands have strictly
\* increasing indices and non-zero exponents, so has the result, also when the
\* exponents of a shared index sum to zero.
SparseMulCanonical ==
    (/\ pc = "done"
     /\ BothSparse
     /\ Canonical(self.degrees)
     /\ Canonical(other.degrees))
    => /\ result.status = "returned"
       /\ HasAttr(result.value, "degrees")
       /\ Canonical(result.value.degrees)

\* x0^2*x1 times x1^-1*x2: the exponents of x1 cancelled and x1 is not stored
SparseMulCanonicalWitness ==
    /\ pc = "done"
    /\ self = SparseMonomialData(<<0, 2, 1, 1>>)
    /\ other = SparseMonomialData(<<1, -1, 2, 1>>)
    /\ result = Returned(SparseMonomialData(<<0, 2, 2, 1>>))

\* the slots of a packed value that the model can decode
Slots == 0..TopSlot

\* C3: packed multiplication rejects digit overflow: when in some slot the
\* sum of the two exponents reaches PACKING_BOUND, the multiplication fails
\* with ExponentOverflow and returns no packed value.
PackedMulRejectsOverflow ==
    (/\ pc = "done"
     /\ BothPacked
     /\ \E i \in Slots : Digit(self.weight, i) + Digit(other.weight, i) >= PACKING_BOUND)
    => result = Raised("ExponentOverflow")

\* C4: packed multiplication is exact integer addition: when every slot-wise
\* exponent sum stays below PACKING_BOUND, the result is returned, its value
\* is self.weight + other.weight as an integer, and every slot of it decodes
\* to the sum of the operands' exponents.
PackedMulExactSum ==
    (/\ pc = "done"
     /\ BothPacked
     /\ \A i \in Slots : Digit(self.weight, i) + Digit(other.weight, i) < PACKING_BOUND)
    => /\ result.status = "returned"
       /\ HasAttr(result.value, "weight")
       /\ ~AddOverflows(self.weight, other.weight)
       /\ result.value.weight = self.weight + other.weight
       /\ \A i \in Slots :
              Digit(result.value.weight, i) = Digit(self.weight, i) + Digit(other.weight, i)

\* a step is a loop iteration
LoopIteration == iterations' = iterations + 1

\* self_index or other_index went up by exactly 2, and neither moved otherwise
AdvancesByTwo ==
    /\ self_index' \in {self_index, self_index + 2}
    /\ other_index' \in {other_index, other_index + 2}
    /\ self_index' = self_index + 2 \/ other_index' = other_index + 2

\* C11: the sparse merge terminates and is linear: on every pair of
\* even-length flat sequences every iteration of the three loops advances at
\* least one cursor by exactly 2, neither cursor ever exceeds the length of
\* its sequence, at most (len(a) + len(b)) / 2 iterations are run, when the
\* loops have ended both cursors equal the lengths, and the call returns.
SparseMergeLinear ==
    /\ [][LoopIteration => AdvancesByTwo]_vars
    /\ [](/\ self_index <= Len(self.degrees)
          /\ other_index <= Len(other.degrees)
          /\ 2 * iterations <= Len(self.degrees) + Len(other.degrees))
    /\ []((pc \in {"return", "done"})
          => /\ self_index = Len(self.degrees)
             /\ other_index = Len(other.degrees))
    /\ <>(pc = "done" /\ result.status = "returned")

\* two sequences of two pairs with no shared index, not both sorted, have been
\* merged in the largest number of iterations the bound allows
SparseMergeLinearWitness ==
    /\ pc = "done"
    /\ Len(self.degrees) = 4 /\ Len(other.degrees) = 4
    /\ ~Canonical(self.degrees)
    /\ self_index = 4 /\ other_index = 4
    /\ iterations = 4
    /\ Len(result.value.degrees) = 8

(***************************************************************************)
(* Claims about the polynomial multiplier.                                  *)
(***************************************************************************)
\* the two dictionaries are equal as mappings, whatever their insertion order
SameMapping(A, B) ==
    /\ Keys(A) = Keys(B)
    /\ \A k \in Keys(A) : Get(A, k) = Get(B, k)

UniqueKeys(items) ==
    \A i, j \in 1..Len(items) : i # j => items[i][1] # items[j][1]

\* the coefficient of monomial k, the ring's zero when k is no key
Coef(items, k) == IF k \in Keys(items) THEN Get(items, k) ELSE 0

\* the pairs of a term of A and a term of B
TermPairs(A, B) == (1..Len(A)) \X (1..Len(B))

\* the product monomials of the term pairs
ProductKeys(A, B) == {MonMul(A[p[1]][1], B[p[2]][1]).value : p \in TermPairs(A, B)}

\* the ring sum of c*d over the term pairs in S whose monomials multiply to k
RECURSIVE ConvSum(_, _, _, _)
ConvSum(A, B, k, S) ==
    IF S = {} THEN 0
    ELSE LET p == CHOOSE q \in S : TRUE
         IN  (IF MonMul(A[p[1]][1], B[p[2]][1]) = Returned(k)
              THEN A[p[1]][2] * B[p[2]][2] ELSE 0)
             + ConvSum(A, B, k, S \ {p})

SameKind == P.packed = Q.packed

\* the polynomial x0 + 2*x1*x2^2 and its square, over the sparse kind
ExampleP ==
    Polynomial("ZZ", FALSE, <<<<SparseMonomialData(<<0, 1>>), 1>>,
                              <<SparseMonomialData(<<1, 1, 2, 2>>), 2>>>>)
ExampleSquare ==
    <<<<SparseMonomialData(<<0, 2>>), 1>>,
      <<SparseMonomialData(<<0, 1, 1, 1, 2, 2>>), 4>>,
      <<SparseMonomialData(<<1, 2, 2, 4>>), 4>>>>

\* C5: c_poly_mul computes the convolution of the two coefficient mappings:
\* the coefficient of every monomial k in P*Q is the ring sum of c*d over the
\* term pairs (m,c) of P and (n,d) of Q with m*n = k, and no monomial that is
\* not such a product is a key; (x0 + 2*x1*x2^2)^2 is
\* x0^2 + 4*x0*x1*x2^2 + 4*x1^2*x2^4.
PolyMulConvolution ==
    /\ (ppc = "done" /\ SameKind)
       => /\ (~P.packed \/ build = "wrap") => PQ.status = "returned"
          /\ PQ.status = "returned"
             => LET A == P.monomial_dictionary
                    B == Q.monomial_dictionary
                    C == PQ.value.monomial_dictionary
                IN  /\ UniqueKeys(C)
                    /\ Keys(C) \subseteq ProductKeys(A, B)
                    /\ \A k \in ProductKeys(A, B) :
                           Coef(C, k) = ConvSum(A, B, k, TermPairs(A, B))
    /\ LET sq == c_poly_mul(ExampleP, ExampleP)
       IN  /\ sq.status = "returned"
           /\ SameMapping(sq.value.monomial_dictionary, ExampleSquare)

\* (x0 + 2) * (x0 - 1): the two x0 terms were added up into one
PolyMulConvolutionWitness ==
    /\ ppc = "done"
    /\ P = Polynomial("ZZ", FALSE, <<<<SparseMonomialData(<<0, 1>>), 1>>,
                                     <<SparseMonomialData(<<>>), 2>>>>)
    /\ Q = Polynomial("ZZ", FALSE, <<<<SparseMonomialData(<<0, 1>>), 1>>,
                                     <<SparseMonomialData(<<>>), -1>>>>)
    /\ PQ = Returned(Polynomial("ZZ", FALSE,
                                <<<<SparseMonomialData(<<0, 2>>), 1>>,
                                  <<SparseMonomialData(<<0, 1>>), 1>>,
                                  <<SparseMonomialData(<<>>), -2>>>>))

\* C6: the product of two polynomials without zero coefficients has no entry
\* whose coefficient is the ring's zero, also when the contributions to one
\* product monomial cancel.
PolyMulNoZeroCoefficient ==
    (ppc = "done" /\ SameKind /\ PQ.status = "returned")
    => \A i \in 1..Len(PQ.value.monomial_dictionary) :
           PQ.value.monomial_dictionary[i][2] # 0

\* C7: kind isolation: multiplying a packed operand by a sparse one (two
\* monomials, or two polynomials over the same ring) fails with the kind
\* mismatch failure and returns no product.  Whatever exception the code
\* raises on such operands is taken for that failure.
MulKindIsolation ==
    (ppc = "done" /\ ~SameKind)
    => /\ PQ.status = "raised"
       /\ QP.status = "raised"
       /\ \A m \in Keys(P.monomial_dictionary), n \in Keys(Q.monomial_dictionary) :
              /\ MonMul(m, n).status = "raised"
              /\ c_mon_mul(m, n).status = "raised"

\* c_sparse_mul(a, b) = c_sparse_mul(b, a) for all sampled canonical sparse monomials
SparseMulCommutes ==
    \A a, b \in SparseMonomials : c_sparse_mul(a, b) = c_sparse_mul(b, a)

\* C8: multiplication is commutative: c_poly_mul(P, Q) and c_poly_mul(Q, P)
\* end alike and, when they return, with equal coefficient mappings (same
\* keys, same coefficient per key); c_sparse_mul(a, b) = c_sparse_mul(b, a).
PolyMulCommutative ==
    /\ (ppc = "done" /\ SameKind)
       => /\ PQ.status = QP.status
          /\ (~P.packed \/ build = "wrap") => PQ.status = "returned"
          /\ PQ.status = "returned"
             => SameMapping(PQ.value.monomial_dictionary, QP.value.monomial_dictionary)
    /\ SparseMulCommutes

\* two sparse polynomials of two terms each whose products list the same four
\* terms in different orders
PolyMulCommutativeWitness ==
    /\ ppc = "done"
    /\ ~P.packed /\ ~Q.packed
    /\ PQ.status = "returned" /\ QP.status = "returned"
    /\ Len(PQ.value.monomial_dictionary) = 4
    /\ PQ.value.monomial_dictionary # QP.value.monomial_dictionary

\* C9: multiplication is associative: c_poly_mul(c_poly_mul(P, Q), R) and
\* c_poly_mul(P, c_poly_mul(Q, R)) return equal coefficient mappings, also
\* when an intermediate product has cancelling terms.
PolyMulAssociative ==
    ppc = "done"
    => /\ (~P.packed \/ build = "wrap")
          => (PQ_R.status = "returned" /\ P_QR.status = "returned")
       /\ (PQ_R.status = "returned" /\ P_QR.status = "returned")
          => SameMapping(PQ_R.value.monomial_dictionary, P_QR.value.monomial_dictionary)

\* (x0 - x1)*(x0 + x1) has the cancelled x0*x1 term; both groupings of the
\* product with R = x0 + x1 returned
PolyMulAssociativeWitness ==
    /\ ppc = "done"
    /\ P = Polynomial("ZZ", FALSE, <<<<SparseMonomialData(<<0, 1>>), 1>>,
                                     <<SparseMonomialData(<<1, 1>>), -1>>>>)
    /\ Q = Polynomial("ZZ", FALSE, <<<<SparseMonomialData(<<0, 1>>), 1>>,
                                     <<SparseMonomialData(<<1, 1>>), 1>>>>)
    /\ R = Q
    /\ Coef(PQ.value.monomial_dictionary, SparseMonomialData(<<0, 1, 1, 1>>)) = 0
    /\ PQ_R.status = "returned"
    /\ P_QR.status = "returned"
    /\ Len(PQ_R.value.monomial_dictionary) = 4

\* the polynomial {identity monomial: ring one}
OnePoly(kind) == Polynomial("ZZ", kind, <<<<IdentityMonomial(kind), 1>>>>)

\* the identity monomial is a two-sided unit on the sampled sparse monomials
SparseIdentityUnit ==
    \A m \in SparseMonomials :
        /\ c_sparse_mul(m, IdentityMonomial(FALSE)) = Returned(m)
        /\ c_sparse_mul(IdentityMonomial(FALSE), m) = Returned(m)

CombinedMulEquivalent ==
    /\ (pc = "done" /\ BothPacked /\ mon_result # NotCalled)
       => mon_result = c_packed_mul(self, other)
    /\ (pc = "done" /\ BothSparse /\ mon_result # NotCalled)
       => /\ mon_result = c_sparse_mul(self, other)
          /\ mon_result.status = "returned"
          /\ HasAttr(mon_result.value, "degrees")
    /\ (ppc = "done" /\ pyx_PQ # NotCalled)
       => /\ pyx_PQ.status = PQ.status
          /\ PQ.status = "returned"
             => /\ Keys(pyx_PQ.value.monomial_dictionary) = Keys(PQ.value.monomial_dictionary)
                /\ Keys(pyx_PQ.value.monomial_dictionary)
                       = ProductKeys(P.monomial_dictionary, Q.monomial_dictionary)

(***************************************************************************)
(* Claims about the matrix multiplier.                                      *)
(***************************************************************************)
\* the ring sum over k in 0..n-1 of se[i][k] * oe[k][j], from k on
RECURSIVE DotSum(_, _, _, _, _)
DotSum(se, oe, i, j, k) ==
    IF k >= Len(oe) THEN 0
    ELSE RingAdd(RingMul(se[i + 1][k + 1], oe[k + 1][j + 1]), DotSum(se, oe, i, j, k + 1))

\* C13: generic dense matrix multiplication: for sr >= 1, on >= 1 and inner
\* dimension n >= 1, c_generic_mul(se, oe, sr, on) returns a list of sr rows
\* of on entries each whose entry (i, j) is the ring sum over k in 0..n-1 of
\* se[i][k] * oe[k][j], using only its four arguments.
GenericMulIsMatrixProduct ==
    (mpc = "done" /\ sr_arg >= 1 /\ on_arg >= 1)
    => /\ mat_result.status = "returned"
       /\ Len(mat_result.value) = sr_arg
       /\ \A i \in 0..(sr_arg - 1) :
              /\ Len(mat_result.value[i + 1]) = on_arg
              /\ \A j \in 0..(on_arg - 1) :
                     mat_result.value[i + 1][j + 1] = DotSum(se_arg, oe_arg, i, j, 0)

====
